---- MODULE Spec2Model ----
(***************************************************************************)
(* MCTS (Minecraft Terrain Studio), src/mcts.py: the two-stage pipeline    *)
(* (s1 reprojection, s2 region generation), its checkpoint document and    *)
(* the driver in main(), as a state machine.                               *)
(*                                                                         *)
(* Disk state survives a process exit; the process's locals are reset to   *)
(* fixed values when it exits.  One project is modelled.                   *)
(***************************************************************************)
EXTENDS Integers, Sequences, FiniteSets, TLC

\* ------------------------------------------------------------------ bounds
\* Largest number of tiles in the project's input directory.
MaxTiles == 2
\* Largest magnitude of a sample coordinate handed to the partitioner alone.
CoordBound == 530
\* Largest reading of the wall clock when the checkpoint store runs alone.
MaxClock == 3
\* Largest tile count and batch size handed to the batching loop alone.
MaxBatchTiles == 25
MaxBatchSize == 10

\* Largest reading of the wall clock and largest number of loop iterations
\* when the time gate of a stage loop runs alone.
MaxGateClock == 21
MaxGateItems == 3

\* ------------------------------------------------------- program constants
\* CHECKPOINT_INTERVAL, in seconds.
CHECKPOINT_INTERVAL == 10
\* Sampling prefix of the elevation floor estimate (min(100, len(tfs))).
SampleLimit == 100
\* Highest y that generate_mca_file places a block at.
WorldCeiling == 319
\* nodata_value default of process_tiff_simple.
NoData == -9999
\* Defaults of the "Base X:" and "Base Y:" prompts of get_config.
BaseX == -36000
BaseY == -29000
\* Batch sizes the operator may enter at the "Batch size:" prompt.
BatchSizes == {0, 1, 2}
Modes == {"project", "generate", "all"}

\* ------------------------------------------------------------ dict helpers
\* A Python dict with string keys is a function on the set of its keys.
EmptyDict == <<>>
\* d.get(k, default)
Get(d, k, default) == IF k \in DOMAIN d THEN d[k] ELSE default
\* d[k] = v
Put(d, k, v) == [j \in (DOMAIN d) \cup {k} |-> IF j = k THEN v ELSE d[j]]

\* ------------------------------------------------------------------ tiles
(* A tile file is one of four kinds.  reproject: what reproject_tiff does   *)
(* with it ("ok"; "failEarly": raises before the output file is opened;     *)
(* "failLate": raises after the output file was opened, leaving it).        *)
(* cells: the raster cells of the (reprojected) tile, each                  *)
(* <<centre x, centre y, elevation>> in tenths of a unit.                   *)
TileKinds == 1..4
TileSpec(k) ==
    CASE k = 1 -> [reproject |-> "ok",
                   cells |-> << <<-359995, -290005, 55>>,       \* (0,0) -> 5
                                <<-353995, -290005, 80>> >>]    \* (600,0) -> 8
      [] k = 2 -> [reproject |-> "ok",
                   cells |-> << <<-360005, -290005, 79>>,       \* (0,0) -> 7
                                <<-360015, -290005, -32>>,      \* (-1,0) -> -3
                                <<-359985, -290005, 4000>> >>]  \* (1,0) -> 400
      [] k = 3 -> [reproject |-> "failEarly",
                   cells |-> << <<-359995, -290005, -99990>>,   \* nodata
                                <<-359985, -290005, -99990>> >>]
      [] k = 4 -> [reproject |-> "failLate",
                   cells |-> << <<-359995, -290005, 25>>,       \* (0,0) -> 2
                                <<-359995, -290005, 38>> >>]    \* (0,0) -> 3

\* np.trunc(v).astype(int) of a value given in tenths: toward zero.
Trunc10(v) == IF v >= 0 THEN v \div 10 ELSE -((-v) \div 10)

\* Fault variant of DictSet: a present key keeps its first value.
DictSet_KeepFirst(d, e) ==
    IF \E n \in 1..Len(d) : d[n][1] = e[1] /\ d[n][2] = e[2] THEN d ELSE Append(d, e)

\* coords_data[(x, z)] = y on a dict kept as a sequence of <<x, z, y>> in
\* insertion order: a present key keeps its place and takes the new value.
DictSet(d, e) ==
    IF \E n \in 1..Len(d) : d[n][1] = e[1] /\ d[n][2] = e[2]
    THEN [n \in 1..Len(d) |->
            IF d[n][1] = e[1] /\ d[n][2] = e[2] THEN e ELSE d[n]]
    ELSE Append(d, e)

\* dict.update(other): every entry of other, in its order.
RECURSIVE DictUpdate(_, _)
DictUpdate(d, other) ==
    IF other = <<>> THEN d
    ELSE DictUpdate(DictSet(d, Head(other)), Tail(other))

\* The sample of one raster cell: offsets subtracted, the row axis negated,
\* all three truncated to integers.
CellSample(c) ==
    << Trunc10(c[1] - BaseX * 10), Trunc10(-(c[2] - BaseY * 10)), Trunc10(c[3]) >>

\* The valid (non-nodata) samples of a tile's cells, in raster order.
RECURSIVE ValidSamples(_)
ValidSamples(cells) ==
    IF cells = <<>> THEN <<>>
    ELSE LET s == CellSample(Head(cells))
         IN  IF s[3] # NoData THEN <<s>> \o ValidSamples(Tail(cells))
             ELSE ValidSamples(Tail(cells))

RECURSIVE SeqMin(_)
SeqMin(s) ==
    IF Len(s) = 1 THEN s[1][3]
    ELSE LET m == SeqMin(Tail(s)) IN IF s[1][3] < m THEN s[1][3] ELSE m

\* Fault variant of process_tiff_simple: the nodata cells are not filtered out.
process_tiff_simple_NoFilter(kind, fileState) ==
    IF fileState # "full" THEN [some |-> FALSE, cm |-> 0, coords |-> <<>>]
    ELSE LET cells == TileSpec(kind).cells
             v == [n \in 1..Len(cells) |-> CellSample(cells[n])]
         IN  [some |-> TRUE, cm |-> SeqMin(v), coords |-> DictUpdate(<<>>, v)]

\* process_tiff_simple(tiff_path, bx, by) on a file of the given kind and
\* state.  A partially written file cannot be read: the except branch.
\* Returns (None, None) as [some |-> FALSE].
NoneResult == [some |-> FALSE, cm |-> 0, coords |-> <<>>]
process_tiff_simple(kind, fileState) ==
    IF fileState # "full" THEN NoneResult
    ELSE LET v == ValidSamples(TileSpec(kind).cells)
         IN  IF Len(v) = 0 THEN NoneResult
             ELSE [some |-> TRUE, cm |-> SeqMin(v), coords |-> DictUpdate(<<>>, v)]

\* ------------------------------------------------------------ partitioner
\* Fault variant of Shr: the quotient rounded toward zero.
Shr_TowardZero(x, n) == IF x >= 0 THEN x \div (2 ^ n) ELSE -((-x) \div (2 ^ n))
\* Fault variant of And31: the remainder taking the sign of its argument.
And31_Signed(x) == IF x >= 0 THEN x % 32 ELSE -((-x) % 32)

\* Python's x >> n and x & (2^n - 1) on unbounded integers.
Shr(x, n) == x \div (2 ^ n)
And31(x) == x % 32
And15(x) == x % 16

region_of(x, z) == << Shr(x, 9), Shr(z, 9) >>
chunk_of(x, z) == << And31(Shr(x, 4)), And31(Shr(z, 4)) >>
block_of(x, z) == << And15(x), And15(z) >>

\* The keys of organize_by_region's result, in insertion order.
RECURSIVE RegionOrder(_, _)
RegionOrder(coords, acc) ==
    IF coords = <<>> THEN acc
    ELSE LET r == region_of(Head(coords)[1], Head(coords)[2])
         IN  RegionOrder(Tail(coords),
                         IF \E n \in 1..Len(acc) : acc[n] = r THEN acc
                         ELSE Append(acc, r))

\* region_data[r]: the columns of region r as <<chunk, block, y>>.
organize_by_region(coords, r) ==
    { << chunk_of(coords[n][1], coords[n][2]),
         block_of(coords[n][1], coords[n][2]),
         coords[n][3] >> :
        n \in { m \in 1..Len(coords) : region_of(coords[m][1], coords[m][2]) = r } }

\* Fault variant of InRange: no upper limit.
InRange_NoCeiling(y, min_elevation) == min_elevation <= y

\* The vertical range test of generate_mca_file.
InRange(y, min_elevation) == min_elevation <= y /\ y <= WorldCeiling

\* generate_mca_file: every chunk of chunks_data is added to the region; a
\* block is set for each column inside the vertical range.
generate_mca_file(chunks_data, min_elevation) ==
    [chunks |-> { c[1] : c \in chunks_data },
     blocks |-> { c \in chunks_data : InRange(c[3], min_elevation) }]

\* f"r.{region_x}.{region_z}.mca"
mca_filename(r) == "r." \o ToString(r[1]) \o "." \o ToString(r[2]) \o ".mca"

\* ------------------------------------------------------------------ state
VARIABLES
    \* ---- disk
    project_exists,     \* projects/<name> exists (get_config created it)
    input,              \* input/*.tif in glob order: a sequence of tile kinds
    projected,          \* tiff_projected/<same name>: "none" | "full" | "partial"
    mca,                \* mca_output/*.mca: a set of file records
    ckptFile,           \* checkpoint.json: a dict, or NoFile
    projected0,         \* history: tiff_projected/ as the operator first filled it
    \* ---- the running process (pc = "menu": no pipeline is running)
    pc,
    checkpoint_data,    \* the dict main() passes to s1 and s2
    ok,                 \* main's ok: "unset" | "true" | "false"
    i,                  \* s1: items of tfs consumed so far
    start_idx,          \* s1
    processed_count,    \* s1
    skipped_count,      \* s1
    tfs2,               \* s2: sorted tiff_projected/*.tif (indices into input)
    total_batches,      \* s2
    start_batch,        \* s2
    batch_idx,          \* s2
    me,                 \* s2: the elevation floor in use
    existing_mcas_set,  \* s2: the skip-set
    total_mca_created,  \* s2
    batch_coords,       \* s2: the batch map
    pending,            \* generate_mca_batch: regions of region_data still to visit
    mca_count,          \* generate_mca_batch
    \* ---- history (not read by the program)
    last_exit,          \* how the last process ended
    stage_result,       \* what s1 and s2 returned in the current/last process
    resumed,            \* the current/last process was started by Resume
    floor_src,          \* s2: "none" | "computed" | "loaded"
    scanned,            \* s2: the skip-set as built by the disk scan
    grown,              \* a tile was added to input/ after the project was created
    write_failed,       \* some region write has failed
    \* ---- the checkpoint store exercised on its own (StoreSpec)
    now,                \* the wall clock read by datetime.now()
    store_log,          \* history: the last store operation and what it returned
    \* ---- the partitioner exercised on its own (PartitionSpec)
    px, pz,             \* a sample's integer coordinates
    parts,              \* organize_by_region's (region, chunk, block) for it
    \* ---- the batching loop of s2 exercised on its own (BatchSpec)
    bt_n,               \* len(tfs)
    bt_bs,              \* bs
    bt_idx,             \* batch_idx
    bt_batches,         \* the batch_files slices formed so far
    \* ---- the time gate of a stage loop exercised on its own (GateSpec)
    last_checkpoint_time,   \* s1, s2: the clock reading of the last gated save
    gate,               \* the loop's position and, as history, its gated saves
    \* ---- generate_mca_batch on one region, column by column (FillSpec)
    fill                \* the region being built, the skip-set and the codec calls

disk == <<project_exists, input, projected, mca, ckptFile, projected0>>
s1_locals == <<i, start_idx, processed_count, skipped_count>>
s2_locals == <<tfs2, total_batches, start_batch, batch_idx, me, existing_mcas_set,
               total_mca_created, batch_coords, pending, mca_count, floor_src, scanned>>
store_vars == <<now, store_log>>
part_vars == <<px, pz, parts>>
batch_vars == <<bt_n, bt_bs, bt_idx, bt_batches>>
gate_vars == <<last_checkpoint_time, gate>>
side == <<store_vars, part_vars, batch_vars, gate_vars, fill>>
vars == <<project_exists, input, projected, mca, ckptFile, projected0, pc, checkpoint_data, ok,
          i, start_idx, processed_count, skipped_count, tfs2, total_batches,
          start_batch, batch_idx, me, existing_mcas_set, total_mca_created,
          batch_coords, pending, mca_count, last_exit, stage_result, resumed,
          floor_src, scanned, grown, write_failed,
          now, store_log, px, pz, parts, bt_n, bt_bs, bt_idx, bt_batches,
          last_checkpoint_time, gate, fill>>

NoFile == <<>>
\* The content of a checkpoint.json that json.load cannot parse.
Unparsable == [unparsable |-> TRUE]
\* No store operation has been made yet.
NoStoreOp == [op |-> "none", ret |-> <<>>, before |-> <<>>, written |-> <<>>]
\* No decomposition has been computed yet.
NoParts == <<>>
NoStageRun == [s1 |-> "none", s2 |-> "none"]

\* All sequences over S of length at most n.
RECURSIVE SeqsUpTo(_, _)
SeqsUpTo(S, n) ==
    IF n = 0 THEN { <<>> }
    ELSE LET shorter == SeqsUpTo(S, n - 1)
         IN  shorter \cup { Append(s, e) : s \in shorter, e \in S }

\* The variables of the component specifications, at rest.
\* No stage loop is running.
NoGate == [stage |-> "none", phase |-> "idle", n |-> 0, saves |-> <<>>]
GateIdle == last_checkpoint_time = 0 /\ gate = NoGate

\* generate_mca_batch is not running.
NoFill == [phase |-> "idle"]
FillIdle == fill = NoFill

SideIdle ==
    /\ GateIdle
    /\ FillIdle
    /\ now = 0 /\ store_log = NoStoreOp
    /\ px = 0 /\ pz = 0 /\ parts = NoParts
    /\ bt_n = 0 /\ bt_bs = 1 /\ bt_idx = 0 /\ bt_batches = <<>>

\* The locals of a process that is not running.
LocalsReset ==
    /\ checkpoint_data' = EmptyDict
    /\ ok' = "unset"
    /\ i' = 0 /\ start_idx' = 0 /\ processed_count' = 0 /\ skipped_count' = 0
    /\ tfs2' = <<>> /\ total_batches' = 0 /\ start_batch' = 0 /\ batch_idx' = 0
    /\ me' = 0 /\ existing_mcas_set' = {} /\ total_mca_created' = 0
    /\ batch_coords' = <<>> /\ pending' = <<>> /\ mca_count' = 0
    /\ floor_src' = "none" /\ scanned' = {}

Init ==
    /\ project_exists = FALSE
    /\ input \in SeqsUpTo(TileKinds, MaxTiles)
    /\ \E placed \in {"none", "full"} : projected = [n \in 1..Len(input) |-> placed]
    /\ projected0 = projected
    /\ mca = {}
    /\ ckptFile = NoFile
    /\ pc = "menu"
    /\ checkpoint_data = EmptyDict
    /\ ok = "unset"
    /\ i = 0 /\ start_idx = 0 /\ processed_count = 0 /\ skipped_count = 0
    /\ tfs2 = <<>> /\ total_batches = 0 /\ start_batch = 0 /\ batch_idx = 0
    /\ me = 0 /\ existing_mcas_set = {} /\ total_mca_created = 0
    /\ batch_coords = <<>> /\ pending = <<>> /\ mca_count = 0
    /\ floor_src = "none" /\ scanned = {}
    /\ last_exit = "none" /\ resumed = FALSE
    /\ stage_result = NoStageRun
    /\ grown = FALSE /\ write_failed = FALSE
    /\ SideIdle

\* ------------------------------------------------------- checkpoint store
\* Fault variant of save_checkpoint: the fields of the document on disk that
\* the new one lacks are kept.
save_checkpoint_Merges(data) ==
    ckptFile' = [k \in (DOMAIN ckptFile) \cup (DOMAIN data) \cup {"timestamp"} |->
                    IF k = "timestamp" THEN now
                    ELSE IF k \in DOMAIN data THEN data[k] ELSE ckptFile[k]]

\* ProjectManager.save_checkpoint: data['timestamp'] = datetime.now(), then
\* the file is overwritten with the dict.  (Under Spec the clock stands
\* still: what the pipeline does with elapsed time is the `due` input of
\* its loops.)
save_checkpoint(data) == ckptFile' = Put(data, "timestamp", now)

\* ProjectManager.load_checkpoint: the document, or None (as NoFile) when
\* there is no file; json.load raises on a file it cannot parse.
load_checkpoint ==
    IF ckptFile = NoFile THEN NoFile
    ELSE IF ckptFile = Unparsable THEN [raised |-> "JSONDecodeError"]
    ELSE ckptFile

\* ProjectManager.delete_checkpoint
delete_checkpoint == ckptFile' = NoFile

\* get_existing_projects: the projects that have a checkpoint.json that
\* parses (`except: pass` drops the others).
get_existing_projects ==
    IF project_exists /\ ckptFile # NoFile /\ ckptFile # Unparsable THEN {ckptFile} ELSE {}

\* ------------------------------------------------------------------ main
\* The process ends: its locals are gone, the disk stays.
Exit(how) ==
    /\ pc' = "menu"
    /\ last_exit' = how
    /\ UNCHANGED stage_result
    /\ LocalsReset

\* get_config's checkpoint document (the fields the pipeline reads).
Config(mode, bs) == [mode |-> mode, bs |-> bs, bx |-> BaseX, by |-> BaseY]

\* main, "New project": get_config creates the project and saves the
\* configuration, then main calls the first stage of the mode.
NewProject(mode, bs) ==
    /\ pc = "menu"
    /\ UNCHANGED side
    /\ ~project_exists
    /\ project_exists' = TRUE
    /\ checkpoint_data' = Config(mode, bs)
    /\ save_checkpoint(Config(mode, bs))
    /\ pc' = IF mode = "generate" THEN "call_s2" ELSE "call_s1"
    /\ last_exit' = "running"
    /\ stage_result' = NoStageRun
    /\ resumed' = FALSE
    /\ UNCHANGED <<input, projected0, projected, mca, ok, s1_locals, s2_locals, grown,
                   write_failed>>

\* The stage main's Resume branch calls first for a checkpoint:
\* "s1", "s2" or "unknown" (the 'Unknown step' branch).
ResumeDispatch(ckpt) ==
    IF Get(ckpt, "current_step", "absent") = "project" THEN "s1"
    ELSE IF Get(ckpt, "current_step", "absent") = "generate" THEN "s2"
    ELSE "unknown"

\* main, "Resume": resume_project loads the document, main dispatches on
\* its current_step.
Resume ==
    /\ pc = "menu"
    /\ UNCHANGED side
    /\ project_exists /\ ckptFile # NoFile
    /\ resumed' = TRUE
    /\ stage_result' = NoStageRun
    /\ LET ckpt == ckptFile
           to == ResumeDispatch(ckpt)
       IN  IF get_existing_projects = {}
           THEN \* resume_project: the 'No projects available' notice
                /\ last_exit' = "no_projects"
                /\ UNCHANGED <<pc, checkpoint_data>>
           ELSE IF to = "unknown"
           THEN /\ last_exit' = "unknown_step"
                /\ UNCHANGED <<pc, checkpoint_data>>
           ELSE /\ last_exit' = "running"
                /\ checkpoint_data' = ckpt
                /\ pc' = IF to = "s1" THEN "call_s1" ELSE "call_s2"
    /\ UNCHANGED <<disk, ok, s1_locals, s2_locals, grown, write_failed>>

\* main after s1 returned True: `if ok and mode == 'all': ok = s2(...)`.
RunsS2AfterS1(mode) == mode = "all"

DriverAfterS1 ==
    /\ pc = "ret1"
    /\ UNCHANGED side
    /\ pc' = IF RunsS2AfterS1(checkpoint_data["mode"]) THEN "call_s2" ELSE "ret"
    /\ UNCHANGED <<disk, checkpoint_data, ok, s1_locals, s2_locals, last_exit,
                   stage_result, resumed,
                   grown, write_failed>>

\* Fault variant of ShouldDelete: the checkpoint deleted once the stages have
\* returned, with either result.
ShouldDelete_WhenReturned(okv) == okv \in {"true", "false"}

\* Fault variant of ShouldDelete: the checkpoint deleted whatever the stages returned.
ShouldDelete_Always(okv) == TRUE

\* main: `if ok: pm.delete_checkpoint()`.
ShouldDelete(okv) == okv = "true"

DriverFinish ==
    /\ pc = "ret"
    /\ UNCHANGED side
    /\ IF ShouldDelete(ok) THEN delete_checkpoint ELSE UNCHANGED ckptFile
    /\ Exit(IF ok = "true" THEN "success" ELSE "failure")
    /\ UNCHANGED <<project_exists, input, projected0, projected, mca, resumed, grown, write_failed>>

\* SIGINT between two steps of the pipeline: signal_handler exits.
Interrupt ==
    /\ pc # "menu"
    /\ UNCHANGED side
    /\ Exit("interrupt")
    /\ UNCHANGED <<disk, resumed, grown, write_failed>>

\* ------------------------------------------------------------------- s1
\* Fault variant of S1StartIdx: the cursor read as the index of the last item.
S1StartIdx_OffByOne(cd) == Get(cd, "step1_progress", 0) + 1

\* start_idx = checkpoint_data.get('step1_progress', 0)
S1StartIdx(cd) == Get(cd, "step1_progress", 0)

S1Enter ==
    /\ pc = "call_s1"
    /\ UNCHANGED side
    /\ IF Len(input) = 0
       THEN /\ ok' = "false"
            /\ pc' = "ret"
            /\ stage_result' = [stage_result EXCEPT !.s1 = "fail"]
            /\ UNCHANGED s1_locals
       ELSE /\ start_idx' = S1StartIdx(checkpoint_data)
            /\ i' = S1StartIdx(checkpoint_data)
            /\ processed_count' = 0
            /\ skipped_count' = 0
            /\ pc' = "s1_loop"
            /\ UNCHANGED <<ok, stage_result>>
    /\ UNCHANGED <<disk, checkpoint_data, s2_locals, last_exit, resumed, grown, write_failed>>

\* What reproject_tiff leaves at the output path for a tile of kind k.
ReprojectOutput(k) ==
    CASE TileSpec(k).reproject = "ok" -> "full"
      [] TileSpec(k).reproject = "failEarly" -> "none"
      [] TileSpec(k).reproject = "failLate" -> "partial"

\* The time-gated save of the s1 loop, after item n.
S1Checkpoint(cd, n) == Put(Put(cd, "step1_progress", n), "current_step", "project")

\* Fault variant of OutputExists: no output is ever found.
OutputExists_Never(state) == FALSE

\* Fault variant of OutputExists: only a completely written output counts.
OutputExists_OnlyComplete(state) == state = "full"

\* `if os.path.exists(op)`: any file at the output path, whatever it holds.
OutputExists(state) == state # "none"

\* Fault variant of S1AfterError: the exception leaves the loop and the stage.
S1AfterError_Aborts == "ret"

\* `except Exception as e: ... continue`: the loop goes on with the next tile.
S1AfterError == "s1_loop"

\* One iteration of `for i, tp in enumerate(tfs[start_idx:], start_idx + 1)`.
\* due: CHECKPOINT_INTERVAL seconds have passed since the last save.
S1Item(due) ==
    /\ pc = "s1_loop"
    /\ UNCHANGED side
    /\ i < Len(input)
    /\ LET n == i + 1
           k == input[n]
       IN  /\ i' = n
           /\ IF OutputExists(projected[n])
              THEN /\ skipped_count' = skipped_count + 1
                   /\ UNCHANGED <<projected, processed_count, checkpoint_data, ckptFile, pc>>
              ELSE /\ projected' = [projected EXCEPT ![n] = ReprojectOutput(k)]
                   /\ UNCHANGED skipped_count
                   /\ IF TileSpec(k).reproject = "ok"
                      THEN /\ processed_count' = processed_count + 1
                           /\ IF due
                              THEN /\ checkpoint_data' = S1Checkpoint(checkpoint_data, n)
                                   /\ save_checkpoint(S1Checkpoint(checkpoint_data, n))
                              ELSE UNCHANGED <<checkpoint_data, ckptFile>>
                           /\ UNCHANGED pc
                      ELSE /\ pc' = S1AfterError
                           /\ UNCHANGED <<processed_count, checkpoint_data, ckptFile>>
    /\ UNCHANGED <<project_exists, input, projected0, mca, ok, start_idx, s2_locals, last_exit,
                   stage_result,
                   resumed, grown, write_failed>>

\* Fault variant of S1Complete: the cursor written back as 0.
S1Complete_ResetsCursor(cd, n) == Put(Put(cd, "step1_progress", 0), "step1_complete", TRUE)

\* The document s1 saves when its loop has ended.
S1Complete(cd, n) == Put(Put(cd, "step1_progress", n), "step1_complete", TRUE)

S1Finish ==
    /\ pc = "s1_loop"
    /\ UNCHANGED side
    /\ i >= Len(input)
    /\ checkpoint_data' = S1Complete(checkpoint_data, Len(input))
    /\ save_checkpoint(S1Complete(checkpoint_data, Len(input)))
    /\ ok' = "true"
    /\ pc' = "ret1"
    /\ stage_result' = [stage_result EXCEPT !.s1 = "ok"]
    /\ UNCHANGED <<project_exists, input, projected0, projected, mca, s1_locals, s2_locals,
                   last_exit,
                   resumed, grown, write_failed>>

\* SIGINT while reproject_tiff is writing the output of the next tile: the
\* output file is left partially written.
InterruptS1Write ==
    /\ pc = "s1_loop"
    /\ UNCHANGED side
    /\ i < Len(input)
    /\ ~OutputExists(projected[i + 1])
    /\ TileSpec(input[i + 1]).reproject # "failEarly"
    /\ projected' = [projected EXCEPT ![i + 1] = "partial"]
    /\ Exit("interrupt")
    /\ UNCHANGED <<project_exists, input, projected0, mca, ckptFile, resumed, grown, write_failed>>

\* ------------------------------------------------------------------- s2
\* sorted(glob(tiff_projected/*.tif)): the tiles that have an output file.
RECURSIVE ProjectedList(_, _)
ProjectedList(proj, n) ==
    IF n = 0 THEN <<>>
    ELSE IF proj[n] # "none" THEN Append(ProjectedList(proj, n - 1), n)
         ELSE ProjectedList(proj, n - 1)

\* process_tiff_simple on tile n of the project.
ReadTile(n) == process_tiff_simple(input[n], projected[n])

Min(a, b) == IF a < b THEN a ELSE b

\* The sampling loop of s2: me = 0, then `if cm is not None and cm < me: me = cm`
\* over tfs[:sample_size].
RECURSIVE SampleLoop(_, _, _)
SampleLoop(tfs, n, acc) ==
    IF n > Min(SampleLimit, Len(tfs)) THEN acc
    ELSE LET r == ReadTile(tfs[n])
         IN  SampleLoop(tfs, n + 1, IF r.some /\ r.cm < acc THEN r.cm ELSE acc)

SampleFloor(tfs) == SampleLoop(tfs, 1, 0)

\* Fault variant of NeedsFloor: the floor sampled on every entry into s2.
NeedsFloor_Always(cd) == TRUE

\* `if 'min_elevation' not in checkpoint_data`
NeedsFloor(cd) == "min_elevation" \notin DOMAIN cd

\* Fault variant of TotalBatches: a last batch shorter than bs is not counted.
TotalBatches_Floor(n, bs) == n \div bs

\* total_batches = (len(tfs) + bs - 1) // bs
TotalBatches(n, bs) == (n + bs - 1) \div bs

\* batch_files = tfs[batch_idx * bs : min(batch_idx * bs + bs, len(tfs))]
BatchFiles(tfs, b, bs) ==
    LET lo == b * bs
        hi == Min(lo + bs, Len(tfs))
    IN  [n \in 1..(IF hi > lo THEN hi - lo ELSE 0) |-> tfs[lo + n]]

\* The batch map: `if coords: batch_coords.update(coords)` over batch_files.
RECURSIVE BatchCoords(_, _)
BatchCoords(files, acc) ==
    IF files = <<>> THEN acc
    ELSE LET r == ReadTile(Head(files))
         IN  BatchCoords(Tail(files),
                         IF r.some /\ r.coords # <<>> THEN DictUpdate(acc, r.coords)
                         ELSE acc)

\* Fault variant of ScanMca: only completely written region files are found.
ScanMca_OnlyComplete == { f.name : f \in { g \in mca : g.state = "full" } }

\* set(os.path.basename(p) for p in glob(mca_output/*.mca))
ScanMca == { f.name : f \in mca }

S2Enter ==
    /\ pc = "call_s2"
    /\ UNCHANGED side
    /\ LET tfs == ProjectedList(projected, Len(projected))
           bs == checkpoint_data["bs"]
       IN  IF Len(tfs) = 0
           THEN /\ ok' = "false"
                /\ pc' = "ret"
                /\ stage_result' = [stage_result EXCEPT !.s2 = "fail"]
                /\ UNCHANGED <<ckptFile, checkpoint_data, s1_locals, s2_locals, last_exit>>
           ELSE IF bs = 0
           THEN \* ZeroDivisionError, caught by main's `except Exception`
                /\ Exit("error")
                /\ UNCHANGED ckptFile
           ELSE /\ tfs2' = tfs
                /\ total_batches' = TotalBatches(Len(tfs), bs)
                /\ start_batch' = Get(checkpoint_data, "step2_batch", 0)
                /\ batch_idx' = Get(checkpoint_data, "step2_batch", 0)
                /\ IF NeedsFloor(checkpoint_data)
                   THEN /\ me' = SampleFloor(tfs)
                        /\ checkpoint_data' =
                               Put(checkpoint_data, "min_elevation", SampleFloor(tfs))
                        /\ save_checkpoint(
                               Put(checkpoint_data, "min_elevation", SampleFloor(tfs)))
                        /\ floor_src' = "computed"
                   ELSE /\ me' = checkpoint_data["min_elevation"]
                        /\ floor_src' = "loaded"
                        /\ UNCHANGED <<checkpoint_data, ckptFile>>
                /\ existing_mcas_set' = ScanMca
                /\ scanned' = ScanMca
                /\ total_mca_created' = 0
                /\ pc' = "s2_loop"
                /\ UNCHANGED <<ok, s1_locals, batch_coords, pending, mca_count,
                               last_exit, stage_result>>
    /\ UNCHANGED <<project_exists, input, projected0, projected, mca, resumed, grown, write_failed>>

\* The head of one iteration of `for batch_idx in range(start_batch,
\* total_batches)`: the batch map is built and, when it is not empty,
\* generate_mca_batch starts on its regions.
S2BatchStart ==
    /\ pc = "s2_loop"
    /\ UNCHANGED side
    /\ batch_idx < total_batches
    /\ LET coords == BatchCoords(BatchFiles(tfs2, batch_idx, checkpoint_data["bs"]), <<>>)
       IN  /\ batch_coords' = coords
           /\ pending' = RegionOrder(coords, <<>>)
    /\ mca_count' = 0
    /\ pc' = "s2_regions"
    /\ UNCHANGED <<disk, checkpoint_data, ok, s1_locals, tfs2, total_batches, start_batch,
                   batch_idx, me, existing_mcas_set, total_mca_created, floor_src,
                   scanned, last_exit, stage_result, resumed, grown, write_failed>>

\* Fault variant of SkipRegion: only the names found by the scan at the start
\* of the run are skipped.
SkipRegion_ScannedOnly(name, skipset) == name \in scanned

\* Fault variant of SkipRegion: no region is ever skipped.
SkipRegion_Never(name, skipset) == FALSE

\* `if mca_filename in existing_mcas_set: continue`
SkipRegion(name, skipset) == name \in skipset

\* The file a region write puts at its path; writes counts the writes made
\* to that path.
WriteFile(name, state, doc) ==
    LET old == { f \in mca : f.name = name }
        n == IF old = {} THEN 0 ELSE (CHOOSE f \in old : TRUE).writes
    IN  (mca \ old) \cup {[name |-> name, state |-> state, doc |-> doc, writes |-> n + 1]}

EmptyRegionDoc == [chunks |-> {}, blocks |-> {}]

\* Fault variant of SkipSetAfterWrite: the name added whatever the write did.
SkipSetAfterWrite_Always(skipset, name, outcome) == skipset \cup {name}

\* `existing_mcas_set.add(mca_filename)` follows region.save inside the try:
\* it is reached only when the write returned.
SkipSetAfterWrite(skipset, name, outcome) ==
    IF outcome = "ok" THEN skipset \cup {name} ELSE skipset

\* One iteration of generate_mca_batch's loop over region_data.  outcome:
\* what generate_mca_file and region.save do ("ok"; "fail": raise with no
\* file at the path; "failPartial": raise with a partly written file left).
S2Region(outcome) ==
    /\ pc = "s2_regions"
    /\ UNCHANGED side
    /\ pending # <<>>
    /\ LET r == Head(pending)
           name == mca_filename(r)
           doc == generate_mca_file(organize_by_region(batch_coords, r), me)
       IN  IF SkipRegion(name, existing_mcas_set)
           THEN /\ outcome = "ok"
                /\ UNCHANGED <<mca, existing_mcas_set, mca_count, write_failed>>
           ELSE CASE outcome = "ok" ->
                       /\ mca' = WriteFile(name, "full", doc)
                       /\ existing_mcas_set' =
                              SkipSetAfterWrite(existing_mcas_set, name, outcome)
                       /\ mca_count' = mca_count + 1
                       /\ UNCHANGED write_failed
                  [] outcome = "fail" ->
                       /\ existing_mcas_set' =
                              SkipSetAfterWrite(existing_mcas_set, name, outcome)
                       /\ write_failed' = TRUE
                       /\ UNCHANGED <<mca, mca_count>>
                  [] outcome = "failPartial" ->
                       /\ mca' = WriteFile(name, "partial", EmptyRegionDoc)
                       /\ existing_mcas_set' =
                              SkipSetAfterWrite(existing_mcas_set, name, outcome)
                       /\ write_failed' = TRUE
                       /\ UNCHANGED mca_count
    /\ pending' = Tail(pending)
    /\ UNCHANGED <<project_exists, input, projected0, projected, ckptFile, pc, checkpoint_data, ok,
                   s1_locals, tfs2, total_batches, start_batch, batch_idx, me,
                   total_mca_created, batch_coords, floor_src, scanned, last_exit, stage_result,
                   resumed, grown>>

\* Fault variant of S2Checkpoint: the cursor saved one batch too far.
S2Checkpoint_SkipsBatch(cd, b, created) ==
    Put(Put(cd, "step2_batch", b + 2), "mca_created", created)

\* The time-gated save of the s2 loop, after batch b (0-based).
S2Checkpoint(cd, b, created) == Put(Put(cd, "step2_batch", b + 1), "mca_created", created)

\* The tail of the iteration: generate_mca_batch has returned mca_count (or
\* was not called for an empty batch map), the batch map is deleted, and
\* the checkpoint is saved when the interval has passed.
S2BatchEnd(due) ==
    /\ pc = "s2_regions"
    /\ UNCHANGED side
    /\ pending = <<>>
    /\ total_mca_created' = total_mca_created + mca_count
    /\ batch_coords' = <<>>
    /\ mca_count' = 0
    /\ IF due
       THEN /\ checkpoint_data' =
                   S2Checkpoint(checkpoint_data, batch_idx, total_mca_created + mca_count)
            /\ save_checkpoint(
                   S2Checkpoint(checkpoint_data, batch_idx, total_mca_created + mca_count))
       ELSE UNCHANGED <<checkpoint_data, ckptFile>>
    /\ batch_idx' = batch_idx + 1
    /\ pc' = "s2_loop"
    /\ UNCHANGED <<project_exists, input, projected0, projected, mca, ok, s1_locals, tfs2,
                   total_batches, start_batch, me, existing_mcas_set, pending, floor_src,
                   scanned, last_exit, stage_result, resumed, grown, write_failed>>

\* The document s2 saves when its loop has ended.
S2Complete(cd, n) == Put(Put(cd, "step2_complete", TRUE), "final_mca_count", n)

S2Finish ==
    /\ pc = "s2_loop"
    /\ UNCHANGED side
    /\ batch_idx >= total_batches
    /\ checkpoint_data' = S2Complete(checkpoint_data, Cardinality(mca))
    /\ save_checkpoint(S2Complete(checkpoint_data, Cardinality(mca)))
    /\ ok' = "true"
    /\ pc' = "ret"
    /\ stage_result' = [stage_result EXCEPT !.s2 = "ok"]
    /\ UNCHANGED <<project_exists, input, projected0, projected, mca, s1_locals, s2_locals,
                   last_exit,
                   resumed, grown, write_failed>>

\* SIGINT while region.save is writing the next region: the file is left
\* partially written.
InterruptS2Write ==
    /\ pc = "s2_regions"
    /\ UNCHANGED side
    /\ pending # <<>>
    /\ ~SkipRegion(mca_filename(Head(pending)), existing_mcas_set)
    /\ mca' = WriteFile(mca_filename(Head(pending)), "partial", EmptyRegionDoc)
    /\ Exit("interrupt")
    /\ UNCHANGED <<project_exists, input, projected0, projected, ckptFile, resumed, grown,
                   write_failed>>

\* ------------------------------------------------------------ environment
\* While no process runs, a tile is added to input/ (the item set may grow
\* between a run and its resume; it does not shrink).
InputGrows(k) ==
    /\ pc = "menu"
    /\ UNCHANGED side
    /\ project_exists
    /\ ckptFile # NoFile
    /\ Len(input) < MaxTiles
    /\ input' = Append(input, k)
    /\ projected' = Append(projected, "none")
    /\ projected0' = Append(projected0, "none")
    /\ grown' = TRUE
    /\ UNCHANGED <<project_exists, mca, ckptFile, pc, checkpoint_data, ok, s1_locals,
                   s2_locals, last_exit, stage_result, resumed, write_failed>>

\* ---------------------------------------------------------- specification
Next ==
    \/ \E mode \in Modes, bs \in BatchSizes : NewProject(mode, bs)
    \/ Resume
    \/ DriverAfterS1
    \/ DriverFinish
    \/ Interrupt
    \/ S1Enter
    \/ \E due \in BOOLEAN : S1Item(due)
    \/ S1Finish
    \/ InterruptS1Write
    \/ S2Enter
    \/ S2BatchStart
    \/ \E outcome \in {"ok", "fail", "failPartial"} : S2Region(outcome)
    \/ \E due \in BOOLEAN : S2BatchEnd(due)
    \/ S2Finish
    \/ InterruptS2Write
    \/ \E k \in TileKinds : InputGrows(k)

Spec == Init /\ [][Next]_vars

\* -------------------------------------------------- component specifications
\* No process is running and the project's directories are empty.
NoProcess ==
    /\ input = <<>> /\ projected = <<>> /\ projected0 = <<>>
    /\ mca = {}
    /\ ckptFile = NoFile
    /\ pc = "menu"
    /\ checkpoint_data = EmptyDict
    /\ ok = "unset"
    /\ i = 0 /\ start_idx = 0 /\ processed_count = 0 /\ skipped_count = 0
    /\ tfs2 = <<>> /\ total_batches = 0 /\ start_batch = 0 /\ batch_idx = 0
    /\ me = 0 /\ existing_mcas_set = {} /\ total_mca_created = 0
    /\ batch_coords = <<>> /\ pending = <<>> /\ mca_count = 0
    /\ floor_src = "none" /\ scanned = {}
    /\ last_exit = "none" /\ resumed = FALSE
    /\ stage_result = NoStageRun
    /\ grown = FALSE /\ write_failed = FALSE

\* The pipeline at rest: no project, no process.
PipelineIdle == project_exists = FALSE /\ NoProcess

pipeline == <<disk, pc, checkpoint_data, ok, s1_locals, s2_locals, last_exit,
              stage_result, resumed, grown, write_failed>>

\* ---- organize_by_region on one item of coords_data
\* Coordinates at which a region, chunk or block index changes.
BoundaryCoords == {-513, -512, -17, -16, -1, 0, 15, 16, 511, 512}
Coords == (-CoordBound)..CoordBound
\* The items handed to the partitioner: every coordinate of the range on
\* one axis against every boundary coordinate on the other.
SampleCoords == (Coords \X BoundaryCoords) \cup (BoundaryCoords \X Coords)

PartInit ==
    /\ PipelineIdle
    /\ now = 0 /\ store_log = NoStoreOp
    /\ bt_n = 0 /\ bt_bs = 1 /\ bt_idx = 0 /\ bt_batches = <<>>
    /\ GateIdle
    /\ FillIdle
    /\ \E c \in SampleCoords : px = c[1] /\ pz = c[2]
    /\ parts = NoParts

\* The body of `for (x, z), y in coords_data.items()` on the item (px, pz).
OrganizeItem ==
    /\ parts = NoParts
    /\ parts' = [region |-> region_of(px, pz),
                 chunk |-> chunk_of(px, pz),
                 block |-> block_of(px, pz)]
    /\ UNCHANGED <<px, pz, pipeline, store_vars, batch_vars, gate_vars, fill>>

PartNext == OrganizeItem

PartitionSpec == PartInit /\ [][PartNext]_vars

\* ---- ProjectManager's checkpoint store and the Resume listing
\* Documents that callers hand to save_checkpoint: get_config's, s1's
\* time-gated one (also as it is after a first save stamped the caller's
\* dict), and s2's after the floor was computed.
StoreDocs ==
    { Config("all", 1),
      S1Checkpoint(Config("all", 1), 1),
      Put(S1Checkpoint(Config("all", 1), 1), "timestamp", 0),
      Put(Config("generate", 1), "min_elevation", -3) }

StoreInit ==
    /\ project_exists = TRUE
    /\ NoProcess
    /\ now = 0 /\ store_log = NoStoreOp
    /\ px = 0 /\ pz = 0 /\ parts = NoParts
    /\ bt_n = 0 /\ bt_bs = 1 /\ bt_idx = 0 /\ bt_batches = <<>>
    /\ GateIdle
    /\ FillIdle

store_rest == <<project_exists, input, projected, mca, projected0, pc, ok, s1_locals,
                s2_locals, last_exit, stage_result, resumed, grown, write_failed,
                part_vars, batch_vars, gate_vars, fill>>

\* Time passes.
Tick ==
    /\ pc = "menu"
    /\ now < MaxClock
    /\ now' = now + 1
    /\ UNCHANGED <<store_log, ckptFile, checkpoint_data, store_rest>>

\* pm.save_checkpoint(doc): the caller's dict gets the timestamp too.
StoreSave(doc) ==
    /\ pc = "menu"
    /\ save_checkpoint(doc)
    /\ checkpoint_data' = Put(doc, "timestamp", now)
    /\ store_log' = [op |-> "save", ret |-> NoFile, before |-> ckptFile,
                     written |-> [arg |-> doc, at |-> now, before |-> ckptFile]]
    /\ UNCHANGED <<now, store_rest>>

\* pm.load_checkpoint()
StoreLoad ==
    /\ pc = "menu"
    /\ store_log' = [op |-> "load", ret |-> load_checkpoint, before |-> ckptFile,
                     written |-> store_log.written]
    /\ UNCHANGED <<now, ckptFile, checkpoint_data, store_rest>>

\* pm.delete_checkpoint(): returns None whether or not the file was there.
StoreDelete ==
    /\ pc = "menu"
    /\ delete_checkpoint
    /\ store_log' = [op |-> "delete", ret |-> NoFile, before |-> ckptFile,
                     written |-> <<>>]
    /\ UNCHANGED <<now, checkpoint_data, store_rest>>

\* The content of checkpoint.json stops being a JSON document.
DocumentDamaged ==
    /\ pc = "menu"
    /\ ckptFile # NoFile /\ ckptFile # Unparsable
    /\ ckptFile' = Unparsable
    /\ store_log' = [op |-> "damage", ret |-> NoFile, before |-> ckptFile,
                     written |-> <<>>]
    /\ UNCHANGED <<now, checkpoint_data, store_rest>>

StoreNext ==
    \/ Tick
    \/ \E doc \in StoreDocs : StoreSave(doc)
    \/ StoreLoad
    \/ StoreDelete
    \/ DocumentDamaged
    \/ Resume
    \/ Interrupt

StoreSpec == StoreInit /\ [][StoreNext]_vars

\* ---- the batching of s2: total_batches and the batch_files slices
\* sorted(glob(...)) for n tiles: the tiles by rank.
SortedTiles(n) == [k \in 1..n |-> k]

BatchInit ==
    /\ PipelineIdle
    /\ now = 0 /\ store_log = NoStoreOp
    /\ px = 0 /\ pz = 0 /\ parts = NoParts
    /\ bt_n \in 1..MaxBatchTiles
    /\ bt_bs \in 1..MaxBatchSize
    /\ bt_idx = 0
    /\ bt_batches = <<>>
    /\ GateIdle
    /\ FillIdle

\* One iteration of `for batch_idx in range(start_batch, total_batches)`
\* from start_batch = 0: the slice batch_files is taken.
FormBatch ==
    /\ bt_idx < TotalBatches(bt_n, bt_bs)
    /\ bt_batches' = Append(bt_batches, BatchFiles(SortedTiles(bt_n), bt_idx, bt_bs))
    /\ bt_idx' = bt_idx + 1
    /\ UNCHANGED <<bt_n, bt_bs, pipeline, store_vars, part_vars, gate_vars, fill>>

BatchNext == FormBatch

BatchSpec == BatchInit /\ [][BatchNext]_vars

\* ---- the time gate of the s1 and s2 loops
\* Fault variant of GateDue: the gate open at every iteration.
GateDue_Always(current_time, last) == TRUE

\* (current_time - last_checkpoint_time).total_seconds() >= CHECKPOINT_INTERVAL
GateDue(current_time, last) == current_time - last >= CHECKPOINT_INTERVAL

GateInit ==
    /\ project_exists = TRUE
    /\ NoProcess
    /\ now = 0 /\ store_log = NoStoreOp
    /\ px = 0 /\ pz = 0 /\ parts = NoParts
    /\ bt_n = 0 /\ bt_bs = 1 /\ bt_idx = 0 /\ bt_batches = <<>>
    /\ GateIdle
    /\ FillIdle

gate_rest == <<project_exists, input, projected, mca, projected0, pc, ok, s1_locals,
               s2_locals, last_exit, stage_result, resumed, grown, write_failed,
               store_log, part_vars, batch_vars, fill>>

\* Time passes, inside an iteration or between two.
GateTick ==
    /\ now < MaxGateClock
    /\ now' = now + 1
    /\ UNCHANGED <<gate_vars, ckptFile, checkpoint_data, gate_rest>>

\* The stage reaches its loop: last_checkpoint_time = datetime.now().
GateEnter(stage) ==
    /\ gate.phase = "idle"
    /\ last_checkpoint_time' = now
    /\ gate' = [stage |-> stage, phase |-> "between", n |-> 0, saves |-> <<>>]
    /\ checkpoint_data' = Config("all", 1)
    /\ UNCHANGED <<now, ckptFile, gate_rest>>

\* The loop takes its next item (s1) or batch (s2).
GateItemStart ==
    /\ gate.phase = "between"
    /\ gate.n < MaxGateItems
    /\ gate' = [gate EXCEPT !.phase = "in_item"]
    /\ UNCHANGED <<now, last_checkpoint_time, ckptFile, checkpoint_data, gate_rest>>

\* The item's work ends.  In s1 a skipped item and a failed one `continue`
\* past the gate; every other iteration goes on to the gate.
GateItemEnd(outcome) ==
    /\ gate.phase = "in_item"
    /\ gate.stage = "s2" => outcome = "done"
    /\ gate' = IF outcome = "done" THEN [gate EXCEPT !.phase = "at_gate"]
               ELSE [gate EXCEPT !.phase = "between", !.n = gate.n + 1]
    /\ UNCHANGED <<now, last_checkpoint_time, ckptFile, checkpoint_data, gate_rest>>

\* The document of the gated save after iteration n (0-based).
GateDoc(stage, cd, n) ==
    IF stage = "s1" THEN S1Checkpoint(cd, n + 1) ELSE S2Checkpoint(cd, n, 0)

\* current_time = datetime.now(); the save when the gate is open.
GateCheck ==
    /\ gate.phase = "at_gate"
    /\ IF GateDue(now, last_checkpoint_time)
       THEN /\ checkpoint_data' = GateDoc(gate.stage, checkpoint_data, gate.n)
            /\ save_checkpoint(GateDoc(gate.stage, checkpoint_data, gate.n))
            /\ last_checkpoint_time' = now
            /\ gate' = [gate EXCEPT !.phase = "between", !.n = gate.n + 1,
                                    !.saves = Append(gate.saves, now)]
       ELSE /\ gate' = [gate EXCEPT !.phase = "between", !.n = gate.n + 1]
            /\ UNCHANGED <<last_checkpoint_time, ckptFile, checkpoint_data>>
    /\ UNCHANGED <<now, gate_rest>>

\* The loop ends and the stage returns.
GateLeave ==
    /\ gate.phase = "between"
    /\ gate' = NoGate
    /\ UNCHANGED <<now, last_checkpoint_time, ckptFile, checkpoint_data, gate_rest>>

GateNext ==
    \/ GateTick
    \/ \E stage \in {"s1", "s2"} : GateEnter(stage)
    \/ GateItemStart
    \/ \E outcome \in {"done", "skipped", "failed"} : GateItemEnd(outcome)
    \/ GateCheck
    \/ GateLeave

GateSpec == GateInit /\ [][GateNext]_vars

\* ---- generate_mca_batch on one region, one column at a time
\* Elevations of a column: below the floor, at it, at the ceiling, above it.
FillHeights == {-4, 0, WorldCeiling, WorldCeiling + 1}
FillFloors == {-3, 0}
FillRegionKey == <<0, 0>>

\* Batch maps with up to three columns in region (0, 0), in three chunks,
\* and up to one column in another region.
FillCoords ==
    { SelectSeq(<< <<0, 0, a>>, <<17, 3, b>>, <<600, 0, c>>, <<300, 20, d>> >>,
                LAMBDA t : t[3] # NoData) :
        a \in FillHeights \cup {NoData}, b \in FillHeights \cup {NoData},
        c \in {0, NoData}, d \in {WorldCeiling, NoData} }

FillInit ==
    /\ PipelineIdle
    /\ now = 0 /\ store_log = NoStoreOp
    /\ px = 0 /\ pz = 0 /\ parts = NoParts
    /\ bt_n = 0 /\ bt_bs = 1 /\ bt_idx = 0 /\ bt_batches = <<>>
    /\ GateIdle
    /\ \E coords \in FillCoords, floor \in FillFloors,
          skipset \in {{}, {mca_filename(FillRegionKey)}, {"r.1.0.mca"}} :
          /\ organize_by_region(coords, FillRegionKey) # {}
          /\ fill = [phase |-> "start", name |-> mca_filename(FillRegionKey),
                     chunks |-> organize_by_region(coords, FillRegionKey),
                     floor |-> floor, skipset |-> skipset, scan |-> skipset,
                     todo |-> {}, placed |-> {}, rejected |-> {},
                     handed |-> 0, saved |-> <<>>, mca_count |-> 0]

fill_rest == <<pipeline, store_vars, part_vars, batch_vars, gate_vars>>

\* The head of the loop body: `if mca_filename in existing_mcas_set: continue`.
FillRegion ==
    /\ fill.phase = "start"
    /\ fill' = IF SkipRegion(fill.name, fill.skipset)
               THEN [fill EXCEPT !.phase = "skipped"]
               ELSE [fill EXCEPT !.phase = "build", !.todo = fill.chunks]
    /\ UNCHANGED fill_rest

\* generate_mca_file at one column: inside the range chunk.set_block is
\* called, and an exception it raises is swallowed (`except Exception: pass`).
FillColumn(accepted) ==
    /\ fill.phase = "build"
    /\ \E c \in fill.todo :
          fill' = IF InRange(c[3], fill.floor)
                  THEN IF accepted
                       THEN [fill EXCEPT !.todo = fill.todo \ {c},
                                         !.placed = fill.placed \cup {c}]
                       ELSE [fill EXCEPT !.todo = fill.todo \ {c},
                                         !.rejected = fill.rejected \cup {c}]
                  ELSE [fill EXCEPT !.todo = fill.todo \ {c}]
    /\ UNCHANGED fill_rest

\* region.save(mca_path), then existing_mcas_set.add and mca_count += 1 when
\* it returned; the `except` of generate_mca_batch when it raised.
FillSave(outcome) ==
    /\ fill.phase = "build" /\ fill.todo = {}
    /\ fill' = [fill EXCEPT
                  !.phase = IF outcome = "ok" THEN "done" ELSE "failed",
                  !.handed = fill.handed + 1,
                  !.saved = IF outcome = "ok"
                            THEN [chunks |-> { c[1] : c \in fill.chunks },
                                  blocks |-> fill.placed]
                            ELSE fill.saved,
                  !.skipset = SkipSetAfterWrite(fill.skipset, fill.name, outcome),
                  !.mca_count = IF outcome = "ok" THEN fill.mca_count + 1
                                ELSE fill.mca_count]
    /\ UNCHANGED fill_rest

FillNext ==
    \/ FillRegion
    \/ \E accepted \in BOOLEAN : FillColumn(accepted)
    \/ \E outcome \in {"ok", "fail"} : FillSave(outcome)

FillSpec == FillInit /\ [][FillNext]_vars

\* ================================================================ claims

\* ------------------------------------------------------------------- C1
\* The file names present in tiff_projected/.
OutputNames(proj) == { n \in 1..Len(proj) : proj[n] # "none" }

\* tiff_projected/ after one uninterrupted run of s1 from the first item:
\* an item whose output exists is skipped, any other is reprojected.
UninterruptedS1 ==
    [n \in 1..Len(input) |->
        IF projected0[n] # "none" THEN projected0[n] ELSE ReprojectOutput(input[n])]

\* C1: whenever s1 has returned (straight through, or resumed from a
\* persisted cursor after an interruption) over an unchanged input list,
\* the set of output file names in tiff_projected/ is the one an
\* uninterrupted run of s1 over the same inputs leaves.
C1_S1ResumeEquivalence ==
    (pc = "ret1" /\ ~grown) =>
        OutputNames(projected) = OutputNames(UninterruptedS1)

\* s1 has returned in a run resumed at cursor 1 of 2 that reprojected a tile.
C1_Witness ==
    /\ pc = "ret1" /\ ~grown /\ resumed
    /\ Len(input) = 2 /\ start_idx = 1 /\ processed_count = 1

\* ------------------------------------------------------------------- C2
\* generate_mca_batch of an uninterrupted run on the regions pend of one
\* batch map, files being the region files written so far.
RECURSIVE RefRegions(_, _, _, _)
RefRegions(pend, coords, floor, files) ==
    IF pend = <<>> THEN files
    ELSE LET name == mca_filename(Head(pend))
         IN  RefRegions(Tail(pend), coords, floor,
                 IF name \in { f.name : f \in files } THEN files
                 ELSE files \cup
                      {[name |-> name, state |-> "full", writes |-> 1,
                        doc |-> generate_mca_file(
                                    organize_by_region(coords, Head(pend)), floor)]})

\* mca_output/ after an uninterrupted run of s2 over tfs with batch size bs
\* and the given floor, started on an empty output directory, no write failing.
RECURSIVE RefBatches(_, _, _, _, _)
RefBatches(tfs, bs, floor, b, files) ==
    IF b >= TotalBatches(Len(tfs), bs) THEN files
    ELSE LET coords == BatchCoords(BatchFiles(tfs, b, bs), <<>>)
         IN  RefBatches(tfs, bs, floor, b + 1,
                        RefRegions(RegionOrder(coords, <<>>), coords, floor, files))

UninterruptedS2 == RefBatches(tfs2, checkpoint_data["bs"], me, 0, {})

\* C2: whenever s2 has returned success over an unchanged tile list, with no
\* region write having failed and no region file cut short by an interrupt,
\* mca_output/ holds exactly the region files of an uninterrupted run of
\* s2, each with the content built from the same batch's columns.
C2_S2ResumeEquivalence ==
    ( /\ pc = "ret" /\ stage_result.s2 = "ok"
      /\ ~grown /\ ~write_failed
      /\ \A f \in mca : f.state = "full" ) =>
        mca = UninterruptedS2

\* s2 has returned in a resumed run that began at batch 1, found region files
\* of the interrupted run on disk and wrote a further one itself.
C2_Witness ==
    /\ pc = "ret" /\ stage_result.s2 = "ok"
    /\ ~grown /\ ~write_failed /\ \A f \in mca : f.state = "full"
    /\ resumed /\ start_batch = 1 /\ scanned # {} /\ total_mca_created = 1

\* ------------------------------------------------------------------- C3
\* The checkpoint on disk was written while or after s2 ran: s2 saves the
\* floor before its first batch.
WrittenDuringGeneration(ckpt) == "min_elevation" \in DOMAIN ckpt

\* C3: a Resume on a checkpoint written while or after the generation stage
\* ran calls s2 and does not call s1 again.  (A step that leaves the menu
\* state's input unchanged while a checkpoint exists is a Resume.)
C3_ResumeEntersGeneration ==
    [][ ( /\ pc = "menu" /\ project_exists
          /\ WrittenDuringGeneration(ckptFile)
          /\ input' = input ) => pc' = "call_s2" ]_vars

\* ------------------------------------------------------------------- C4
NonCleanExit == pc = "menu" /\ last_exit \in {"interrupt", "failure", "error"}

\* C4: every checkpoint a run leaves on disk after a non-clean exit carries
\* a stage tag Resume can dispatch on, and one written during the
\* generation stage carries the generation tag.
C4_LeftCheckpointResumable ==
    (NonCleanExit /\ ckptFile # NoFile) =>
        /\ ResumeDispatch(ckptFile) # "unknown"
        /\ WrittenDuringGeneration(ckptFile) => ResumeDispatch(ckptFile) = "s2"

\* ------------------------------------------------------------------- C5
\* Every stage of the checkpoint's mode has returned success in this process.
ModeStagesOk ==
    /\ "mode" \in DOMAIN checkpoint_data
    /\ checkpoint_data["mode"] \in {"project", "all"} => stage_result.s1 = "ok"
    /\ checkpoint_data["mode"] \in {"generate", "all"} => stage_result.s2 = "ok"

C6_CursorNotPastFailedItem ==
    \A n \in 1..Len(input) :
        ( /\ "step1_progress" \in DOMAIN ckptFile
          /\ TileSpec(input[n]).reproject # "ok"
          /\ projected[n] = "none" ) => ckptFile["step1_progress"] < n

\* ------------------------------------------------------------------- C7
\* C7: once min_elevation is in the checkpoint file no step changes it (the
\* file may only be deleted), and an entry into s2 that finds it uses the
\* stored value without sampling.
C7_FloorStable ==
    [][ /\ WrittenDuringGeneration(ckptFile) =>
              \/ ckptFile' = NoFile
              \/ /\ WrittenDuringGeneration(ckptFile')
                 /\ ckptFile'["min_elevation"] = ckptFile["min_elevation"]
        /\ (pc = "call_s2" /\ pc' = "s2_loop" /\ WrittenDuringGeneration(ckptFile)) =>
              (me' = ckptFile["min_elevation"] /\ floor_src' = "loaded") ]_vars

\* s2 runs on a loaded floor that differs from what sampling would now give.
C7_Witness ==
    /\ pc = "s2_loop" /\ floor_src = "loaded"
    /\ SampleFloor(tfs2) # me

\* ------------------------------------------------------------------- C8
\* The per-tile minima observed over the sampling prefix of tfs.
SampledMinima(tfs) ==
    { ReadTile(tfs[n]).cm :
        n \in { m \in 1..Min(SampleLimit, Len(tfs)) : ReadTile(tfs[m]).some } }

\* C8: a floor computed by s2 is the minimum of the per-tile minima observed
\* over the first min(100, n) tiles.
C8_FloorIsSampleMinimum ==
    (pc = "s2_loop" /\ floor_src = "computed" /\ SampledMinima(tfs2) # {}) =>
        /\ me \in SampledMinima(tfs2)
        /\ \A m \in SampledMinima(tfs2) : me <= m

\* ------------------------------------------------------------------- C9
\* C9: a region file present in mca_output/ is never written again.
C9_WriteOnce ==
    [][ \A f \in mca : f \in mca' ]_vars

\* ------------------------------------------------------------------ C10
\* The region file names touched by the samples of the tiles of tfs.
TouchedNames(tfs) ==
    UNION { LET coords == ReadTile(tfs[n]).coords
            IN  { mca_filename(region_of(coords[m][1], coords[m][2])) :
                    m \in 1..Len(coords) } : n \in 1..Len(tfs) }

ScanCoversInput == pc \in {"s2_loop", "s2_regions"} /\ TouchedNames(tfs2) \subseteq scanned

\* C10: when the skip-set built by the disk scan holds the file name of
\* every region the input set touches, the generation stage writes no
\* region file and every batch's created count is 0.
C10_GenerationIdempotent ==
    [][ ScanCoversInput =>
            (mca' = mca /\ mca_count = 0 /\ total_mca_created = 0
             /\ mca_count' = 0 /\ total_mca_created' = 0) ]_vars

\* generate_mca_batch is at a region of a non-empty input set that the scan
\* found fully materialized.
C10_Witness ==
    /\ ScanCoversInput /\ pc = "s2_regions" /\ pending # <<>>
    /\ Cardinality(TouchedNames(tfs2)) >= 2

\* ------------------------------------------------------------------ C11
\* generate_mca_batch is at a region it does not skip.
AtUnskippedRegion ==
    /\ pc = "s2_regions" /\ pending # <<>>
    /\ ~SkipRegion(mca_filename(Head(pending)), existing_mcas_set)

\* Every name the run itself added to the skip-set is the name of a region
\* file it wrote in full.
SkipSetAdditionsWritten ==
    pc \in {"s2_loop", "s2_regions"} =>
        \A name \in existing_mcas_set \ scanned :
            \E f \in mca : f.name = name /\ f.state = "full"

\* C11: a step of generate_mca_batch on an unskipped region that creates no
\* file count (the write failed) leaves the region's name out of the
\* skip-set and goes on with the remaining regions of the same batch; and a
\* name is in the skip-set only through the scan or a completed write, so a
\* later batch that reaches the failed region attempts the write again.
C11_FailedWriteRetried ==
    /\ []SkipSetAdditionsWritten
    /\ [][ (AtUnskippedRegion /\ pc' # "menu" /\ mca_count' = mca_count) =>
              /\ mca_filename(Head(pending)) \notin existing_mcas_set'
              /\ pc' = "s2_regions" /\ pending' = Tail(pending)
              /\ batch_idx' = batch_idx ]_vars

\* A later batch of the run is at a region whose write failed in an earlier
\* batch (its partly written file is on disk, its name not in the skip-set).
C11_Witness ==
    /\ AtUnskippedRegion /\ batch_idx >= 1 /\ write_failed
    /\ \E f \in mca : f.name = mca_filename(Head(pending)) /\ f.state = "partial"

\* ------------------------------------------------------------------ C12
\* (region, chunk, block) put back together on one axis.
Recombine(p, axis) == p.region[axis] * 512 + p.chunk[axis] * 16 + p.block[axis]

\* The decomposition of (x, z) as organize_by_region computes it.
Decompose(x, z) ==
    [region |-> region_of(x, z), chunk |-> chunk_of(x, z), block |-> block_of(x, z)]

\* Displacements of one block, one chunk and one region.
Strides == {-512, -16, -1, 1, 16, 512}

\* C12: for every integer x and z, negative ones included, the region, chunk
\* and block that organize_by_region computes recombine to x and to z, with
\* chunk in 0..31 and block in 0..15 on both axes; and the samples one block,
\* one chunk and one region away get a different (region, chunk, block).
C12_DecompositionRoundTrip ==
    parts # NoParts =>
        /\ Recombine(parts, 1) = px /\ Recombine(parts, 2) = pz
        /\ \A axis \in {1, 2} :
              parts.chunk[axis] \in 0..31 /\ parts.block[axis] \in 0..15
        /\ \A d \in Strides :
              Decompose(px + d, pz) # parts /\ Decompose(px, pz + d) # parts

\* The decomposition of a sample with both coordinates negative.
C12_Witness ==
    /\ px = -513 /\ pz = -1
    /\ parts = [region |-> <<-2, -1>>, chunk |-> <<31, 31>>, block |-> <<15, 15>>]

\* ------------------------------------------------------------------ C13
\* r is the floor of v / 512.
IsFloor512(r, v) == r * 512 <= v /\ v < (r + 1) * 512

\* C13: the region index of a coordinate is the floor of the coordinate
\* divided by 512 on both axes, with region(511) = 0, region(512) = 1,
\* region(-1) = -1, region(-512) = -1 and region(-513) = -2.
C13_RegionIsFloor ==
    parts # NoParts =>
        /\ IsFloor512(parts.region[1], px) /\ IsFloor512(parts.region[2], pz)
        /\ \A c \in {<<511, 0>>, <<512, 1>>, <<-1, -1>>, <<-512, -1>>, <<-513, -2>>} :
              /\ px = c[1] => parts.region[1] = c[2]
              /\ pz = c[1] => parts.region[2] = c[2]

\* The region of a sample on the two region edges next to zero.
C13_Witness ==
    /\ px = 512 /\ pz = -512
    /\ parts # NoParts /\ parts.region = <<1, -1>>

\* ------------------------------------------------------------------ C14
\* The samples of the tiles of files in insertion order: the tiles in list
\* order, each tile's valid cells in raster order.
RECURSIVE BatchSamples(_)
BatchSamples(files) ==
    IF files = <<>> THEN <<>>
    ELSE (IF projected[Head(files)] = "full"
          THEN ValidSamples(TileSpec(input[Head(files)]).cells) ELSE <<>>)
         \o BatchSamples(Tail(files))

SameKey(a, b) == a[1] = b[1] /\ a[2] = b[2]

CurrentBatchSamples == BatchSamples(BatchFiles(tfs2, batch_idx, checkpoint_data["bs"]))

\* C14: the batch map handed to generate_mca_batch holds, for every (x, z)
\* key of the batch's samples, exactly one entry, whose elevation is that of
\* the last sample inserted under the key; and it holds no other key.
C14_BatchLastWriteWins ==
    pc = "s2_regions" =>
        LET all == CurrentBatchSamples
        IN  /\ \A m \in 1..Len(all) :
                  LET last == CHOOSE n \in 1..Len(all) :
                                  /\ SameKey(all[n], all[m])
                                  /\ \A q \in (n + 1)..Len(all) : ~SameKey(all[q], all[m])
                      held == { n \in 1..Len(batch_coords) : SameKey(batch_coords[n], all[m]) }
                  IN  /\ Cardinality(held) = 1
                      /\ \A n \in held : batch_coords[n][3] = all[last][3]
            /\ \A n \in 1..Len(batch_coords) :
                  \E m \in 1..Len(all) : SameKey(batch_coords[n], all[m])

\* A batch of two tiles in which one key is sampled twice by the first tile
\* and once more by the second: five samples, three keys.
C14_Witness ==
    /\ pc = "s2_regions"
    /\ Len(BatchFiles(tfs2, batch_idx, checkpoint_data["bs"])) = 2
    /\ Len(CurrentBatchSamples) = 5 /\ Len(batch_coords) = 3
    /\ \E n \in 1..Len(batch_coords) : batch_coords[n] = <<0, 0, 7>>

\* ------------------------------------------------------------------ C15
\* The batching loop has ended.
BatchesFormed == bt_idx >= TotalBatches(bt_n, bt_bs)

\* c is the ceiling of n / bs.
IsCeil(c, n, bs) == c * bs >= n /\ (c - 1) * bs < n

\* The batches and positions that hold tile t.
PlacesOf(t) ==
    { bk \in (1..Len(bt_batches)) \X (1..bt_bs) :
        bk[2] <= Len(bt_batches[bk[1]]) /\ bt_batches[bk[1]][bk[2]] = t }

BatchSizes_Formed == [b \in 1..Len(bt_batches) |-> Len(bt_batches[b])]

\* C15: for n tiles and batch size bs >= 1 every batch formed is the next
\* consecutive slice of the sorted tile list, of size bs unless it is a
\* shorter last one; when the loop has ended there are ceil(n/bs) batches
\* and every tile is in exactly one; 25 tiles with batch size 10 give the
\* sizes 10, 10, 5.
C15_BatchesPartitionTiles ==
    /\ \A b \in 1..Len(bt_batches) :
          /\ Len(bt_batches[b]) >= 1
          /\ Len(bt_batches[b]) = IF b * bt_bs <= bt_n THEN bt_bs
                                  ELSE bt_n - (b - 1) * bt_bs
          /\ \A k \in 1..Len(bt_batches[b]) : bt_batches[b][k] = (b - 1) * bt_bs + k
    /\ BatchesFormed =>
          /\ IsCeil(Len(bt_batches), bt_n, bt_bs)
          /\ \A t \in 1..bt_n : Cardinality(PlacesOf(t)) = 1
          /\ (bt_n = 25 /\ bt_bs = 10) => BatchSizes_Formed = <<10, 10, 5>>

\* The batches of 25 tiles with batch size 10 have all been formed.
C15_Witness ==
    /\ bt_n = 25 /\ bt_bs = 10 /\ BatchesFormed
    /\ BatchSizes_Formed = <<10, 10, 5>>

\* ------------------------------------------------------------------ C16
\* C16: when s2 has returned, a checkpoint document that carries
\* step2_complete also carries a batch cursor step2_batch equal to the
\* total number of batches.
C16_CompleteOnlyAtFullCursor ==
    ( /\ pc = "ret" /\ stage_result.s2 = "ok"
      /\ "step2_complete" \in DOMAIN ckptFile ) =>
        /\ "step2_batch" \in DOMAIN ckptFile
        /\ ckptFile["step2_batch"] = total_batches

\* ------------------------------------------------------------------ C17
\* Tile n of the project is readable and every one of its cells equals the
\* nodata sentinel.
AllNodata(n) ==
    /\ projected[n] = "full"
    /\ \A c \in 1..Len(TileSpec(input[n]).cells) :
           TileSpec(input[n]).cells[c][3] = NoData * 10

HasData(n) == ~AllNodata(n)

CurrentBatchFiles == BatchFiles(tfs2, batch_idx, checkpoint_data["bs"])

\* C17: the batch map is the one built from the batch's other tiles alone,
\* an all-nodata tile adding no sample to it; a batch of all-nodata tiles
\* has an empty map, no region to visit, and its processing creates no file.
C17_NodataTileContributesNothing ==
    pc = "s2_regions" =>
        /\ batch_coords = BatchCoords(SelectSeq(CurrentBatchFiles, HasData), <<>>)
        /\ (\A n \in 1..Len(CurrentBatchFiles) : AllNodata(CurrentBatchFiles[n])) =>
              (batch_coords = <<>> /\ pending = <<>> /\ mca_count = 0)

\* The second batch of a run is one all-nodata tile; the first batch wrote
\* region files, this one has nothing to build.
C17_Witness ==
    /\ pc = "s2_regions" /\ batch_idx = 1
    /\ Len(CurrentBatchFiles) = 1 /\ AllNodata(CurrentBatchFiles[1])
    /\ batch_coords = <<>> /\ pending = <<>>
    /\ total_mca_created >= 1

\* ------------------------------------------------------------------ C18
\* The cursors a persisted document stands for (an absent key reads as 0).
Cursor1(doc) == Get(doc, "step1_progress", 0)
Cursor2(doc) == Get(doc, "step2_batch", 0)

\* C18: no step replaces the persisted document of the project by one with
\* a smaller step1_progress or a smaller step2_batch, across interruption
\* and resume and with tiles added to the input in between.
C18_CursorsMonotonic ==
    [][ (ckptFile # NoFile /\ ckptFile' # NoFile) =>
            /\ Cursor1(ckptFile') >= Cursor1(ckptFile)
            /\ Cursor2(ckptFile') >= Cursor2(ckptFile) ]_vars

\* A resumed run that started at batch 1 has saved the batch cursor 2, the
\* item cursor being at the end of a list of two.
C18_Witness ==
    /\ resumed /\ start_batch = 1
    /\ ckptFile # NoFile /\ Cursor2(ckptFile) = 2 /\ Cursor1(ckptFile) = 2

\* ------------------------------------------------------------------ C19
\* C19: a Resume request made while the project's checkpoint.json exists
\* and does not parse ends that resume with an error reported to the
\* operator.  (With no pipeline running, only a Resume request changes how
\* the last process ended.)
C19_UnparsableResumeReported ==
    [][ (pc = "menu" /\ ckptFile = Unparsable /\ last_exit' # last_exit) =>
            (pc' = "menu" /\ last_exit' = "error") ]_vars

\* ------------------------------------------------------------------ C20
\* f has exactly the fields of arg and a timestamp field, which reads at.
IsSavedDoc(f, arg, at) ==
    /\ DOMAIN f = (DOMAIN arg) \cup {"timestamp"}
    /\ f["timestamp"] = at
    /\ \A k \in (DOMAIN arg) \ {"timestamp"} : f[k] = arg[k]

\* C20: after save(doc) the file holds doc's fields and the clock reading of
\* the save, and nothing of the document it replaced; load() returns that
\* document, and None when there is no file; delete() leaves no file and
\* raises nothing, on an absent file too.
C20_StoreRoundTrip ==
    /\ store_log.op = "save" =>
          IsSavedDoc(ckptFile, store_log.written.arg, store_log.written.at)
    /\ (store_log.op = "load" /\ store_log.written # <<>>) =>
          IsSavedDoc(store_log.ret, store_log.written.arg, store_log.written.at)
    /\ (store_log.op = "load" /\ ckptFile = NoFile) => store_log.ret = NoFile
    /\ store_log.op = "delete" => (ckptFile = NoFile /\ store_log.ret = NoFile)

\* load() after a save that replaced a document carrying min_elevation and
\* an older timestamp by one without that field.
C20_Witness ==
    /\ store_log.op = "load" /\ store_log.written # <<>>
    /\ store_log.written.before \notin {NoFile, Unparsable}
    /\ "min_elevation" \in DOMAIN store_log.written.before
    /\ "min_elevation" \notin DOMAIN store_log.written.arg
    /\ store_log.written.before["timestamp"] < store_log.written.at
    /\ store_log.ret = ckptFile

\* ------------------------------------------------------------------ C21
\* C21: between two consecutive time-gated saves of one stage run at least
\* CHECKPOINT_INTERVAL seconds have passed, and the checkpoint file is
\* written only at the gate that follows a finished item or batch, never
\* while one is in flight.
C21_GatedSaveCadence ==
    /\ [](\A k \in 2..Len(gate.saves) :
             gate.saves[k] - gate.saves[k - 1] >= CHECKPOINT_INTERVAL)
    /\ [][ ckptFile' # ckptFile =>
              (gate.phase = "at_gate" /\ gate'.phase = "between" /\ gate'.n = gate.n + 1)
         ]_vars

\* Two gated saves of one s2 run exactly one interval apart, time having
\* passed while a batch was in flight.
C21_Witness ==
    /\ gate.stage = "s2" /\ Len(gate.saves) = 2
    /\ gate.saves[2] - gate.saves[1] = CHECKPOINT_INTERVAL
    /\ gate.phase = "in_item" /\ now > gate.saves[2]

\* ------------------------------------------------------------------ C22
\* A stage is called and finds nothing to work on.
S1FindsNothing == pc = "call_s1" /\ Len(input) = 0
S2FindsNothing == pc = "call_s2" /\ ProjectedList(projected, Len(projected)) = <<>>
InterruptStep == pc' = "menu" /\ last_exit' = "interrupt" /\ ckptFile' = ckptFile

\* C22: a stage that finds no input items returns failure before processing
\* anything: control goes straight to the end of main with ok false (s2 of an
\* 'all' run is not entered after an empty s1), no file and no checkpoint
\* field is written, and main then leaves the checkpoint file in place.
C22_EmptyStageAborts ==
    /\ [][ (S1FindsNothing \/ S2FindsNothing) =>
             \/ InterruptStep
             \/ /\ pc' = "ret" /\ ok' = "false"
                /\ stage_result' = IF S1FindsNothing
                                    THEN [stage_result EXCEPT !.s1 = "fail"]
                                    ELSE [stage_result EXCEPT !.s2 = "fail"]
                /\ UNCHANGED <<ckptFile, checkpoint_data, projected, mca>> ]_vars
    /\ [][ (pc = "ret" /\ ok = "false") =>
             \/ InterruptStep
             \/ /\ pc' = "menu" /\ last_exit' = "failure"
                /\ UNCHANGED <<ckptFile, stage_result>> ]_vars

\* An 'all' run has ended in failure on an empty input directory: s1 failed,
\* s2 never ran, the checkpoint file is still there without cursor or flag.
C22_Witness ==
    /\ pc = "menu" /\ last_exit = "failure"
    /\ stage_result = [s1 |-> "fail", s2 |-> "none"]
    /\ ckptFile # NoFile /\ ckptFile["mode"] = "all"
    /\ "step1_progress" \notin DOMAIN ckptFile
    /\ "step1_complete" \notin DOMAIN ckptFile

\* ------------------------------------------------------------------ C23
InS2Loop == pc \in {"s2_loop", "s2_regions"}

\* The batch map of batch b of the running s2, its regions, and the region
\* structure built from it for region r.
CoordsOfBatch(b) == BatchCoords(BatchFiles(tfs2, b, checkpoint_data["bs"]), <<>>)
RegionsOfBatch(b) ==
    LET rs == RegionOrder(CoordsOfBatch(b), <<>>) IN { rs[n] : n \in 1..Len(rs) }
DocOfBatch(b, r) == generate_mca_file(organize_by_region(CoordsOfBatch(b), r), me)

\* The batches of the run, up to the current one, with columns in the
\* region of the given file name.
TouchingBatches(name) ==
    { b \in start_batch..Min(batch_idx, total_batches - 1) :
        \E r \in RegionsOfBatch(b) : mca_filename(r) = name }

\* Every region file the run wrote holds the columns of exactly one of the
\* batches processed so far: the first one with columns in the region, unless
\* a region write has failed.
WrittenFileIsOneBatch ==
    InS2Loop =>
        \A f \in mca :
            f.name \in existing_mcas_set \ scanned =>
                \E b \in TouchingBatches(f.name) :
                    /\ write_failed \/ \A c \in TouchingBatches(f.name) : b <= c
                    /\ \E r \in RegionsOfBatch(b) :
                          mca_filename(r) = f.name /\ f.doc = DocOfBatch(b, r)

AtTileWithOutput == pc = "s1_loop" /\ i < Len(input) /\ projected[i + 1] # "none"

\* C24: no step taken while the s1 loop is at a tile whose output file
\* exists changes any output file; the loop's own step counts the tile as
\* skipped, not as processed, writes no checkpoint and moves to the next tile.
C24_ExistingOutputSkipped ==
    [][ AtTileWithOutput =>
          /\ projected' = projected
          /\ ckptFile' = ckptFile
          /\ pc' # "menu" =>
                /\ pc' = "s1_loop" /\ i' = i + 1
                /\ skipped_count' = skipped_count + 1
                /\ processed_count' = processed_count ]_vars

\* A resumed s1 has just skipped the tile its cursor selected: the tile's
\* output was complete on disk although the checkpoint had not recorded it.
C24_Witness ==
    /\ pc = "s1_loop" /\ resumed /\ i = start_idx + 1
    /\ skipped_count = 1 /\ processed_count = 0
    /\ projected[i] = "full"

\* ------------------------------------------------------------------ C25
\* A step of s1 that ends the process and leaves a new file in
\* tiff_projected: SIGINT while reproject_tiff was writing.
InterruptedWrite == pc = "s1_loop" /\ pc' = "menu" /\ projected' # projected

\* C25: SIGINT during the write of a tile's output leaves the checkpoint file
\* as the last save wrote it and a partly written output for that tile alone;
\* while s1 runs, a partly written output is never rewritten, and the loop
\* that comes to such a tile skips it.
C25_TruncatedOutputTrusted ==
    /\ [][ InterruptedWrite =>
             /\ ckptFile' = ckptFile /\ ckptFile # NoFile
             /\ projected' = [projected EXCEPT ![i + 1] = "partial"]
             /\ last_exit' = "interrupt" ]_vars
    /\ [][ pc # "menu" =>
             \A n \in 1..Len(projected) :
                 projected[n] = "partial" => projected'[n] = "partial" ]_vars
    /\ [][ (pc = "s1_loop" /\ i < Len(input) /\ projected[i + 1] = "partial"
             /\ pc' # "menu") =>
                i' = i + 1 /\ skipped_count' = skipped_count + 1 ]_vars

\* A resumed run has finalized (success, checkpoint deleted) although the
\* output of a tile that reprojects without error is a truncated file.
C25_Witness ==
    /\ pc = "menu" /\ last_exit = "success" /\ resumed /\ ckptFile = NoFile
    /\ stage_result.s1 = "ok"
    /\ \E n \in 1..Len(input) :
          projected[n] = "partial" /\ TileSpec(input[n]).reproject = "ok"

\* ------------------------------------------------------------------ C26
\* The occupied columns of the region whose elevation is inside the range.
FillInside == { c \in fill.chunks : fill.floor <= c[3] /\ c[3] <= 319 }

\* C26 as stated: the structure written for an unskipped region holds a fill
\* instruction for every occupied column inside the range and for no other; it
\* went to the codec once; its name is in the skip-set only after the write.
C26_EveryInsideColumnFilled ==
    /\ fill.phase = "done" =>
          fill.saved.blocks = FillInside /\ fill.handed = 1 /\ fill.name \in fill.skipset
    /\ fill.phase \in {"start", "build", "failed"} => fill.skipset = fill.scan

\* C26, amended: the structure holds a fill instruction for exactly the
\* occupied columns inside the range whose placement the codec accepted, and
\* none for a column outside the range; it is handed to the codec once, and
\* the name enters the skip-set only with a write that returned.
C26_AcceptedInsideColumnsFilled ==
    /\ fill.phase \in {"build", "done", "failed"} =>
          /\ fill.placed \subseteq FillInside
          /\ fill.placed \cup fill.rejected \cup (fill.todo \cap FillInside) = FillInside
          /\ fill.placed \cap fill.rejected = {}
    /\ fill.phase = "done" =>
          /\ fill.saved.blocks = FillInside \ fill.rejected
          /\ fill.handed = 1 /\ fill.mca_count = 1
          /\ fill.skipset = fill.scan \cup {fill.name}
    /\ fill.phase = "failed" =>
          fill.handed = 1 /\ fill.skipset = fill.scan /\ fill.saved = <<>>
    /\ fill.phase \in {"start", "build", "skipped"} =>
          fill.handed = 0 /\ fill.skipset = fill.scan /\ fill.saved = <<>>
    /\ fill.phase = "skipped" => fill.name \in fill.scan
    /\ fill.phase \in {"build", "done", "failed"} => fill.name \notin fill.scan

\* A region was written with one column placed, one inside the range that
\* the codec rejected, and one above the ceiling.
C26_Witness ==
    /\ fill.phase = "done"
    /\ fill.placed # {} /\ fill.rejected # {}
    /\ \E c \in fill.chunks : c[3] > 319
    /\ fill.saved.blocks = fill.placed

\* ------------------------------------------------------------------ C27
\* C27: s2 starts its loop with the skip-set equal to the set of names of
\* the files in mca_output/, whatever their state; while the loop runs, a
\* step never removes a name, and a step that adds one adds the name of the
\* region generate_mca_batch is at, with that region's file written in full
\* by the same step.
C27_SkipSetOnlyGrows ==
    /\ [][ (pc = "call_s2" /\ pc' = "s2_loop") =>
             existing_mcas_set' = { f.name : f \in mca } ]_vars
    /\ [][ (InS2Loop /\ pc' \in {"s2_loop", "s2_regions"}) =>
             /\ existing_mcas_set \subseteq existing_mcas_set'
             /\ existing_mcas_set' # existing_mcas_set =>
                   /\ pc = "s2_regions" /\ pending # <<>>
                   /\ existing_mcas_set' =
                          existing_mcas_set \cup {mca_filename(Head(pending))}
                   /\ mca_count' = mca_count + 1
                   /\ \E f \in mca' \ mca :
                         f.name = mca_filename(Head(pending)) /\ f.state = "full" ]_vars

\* A resumed s2 found a region file cut short by an interrupt in its scan
\* and has since added a region of its own to the skip-set.
C27_Witness ==
    /\ InS2Loop /\ resumed
    /\ \E f \in mca : f.name \in scanned /\ f.state = "partial"
    /\ existing_mcas_set \ scanned # {}
    /\ scanned \subseteq existing_mcas_set

\* ------------------------------------------------------------------ C28
\* The s1 loop is at a tile without output whose reprojection raises.
AtFailingTile ==
    /\ pc = "s1_loop" /\ i < Len(input)
    /\ projected[i + 1] = "none" /\ TileSpec(input[i + 1]).reproject # "ok"

\* C28: the s1 step on a tile whose reprojection raises stays in the loop and
\* moves to the next tile without counting or saving anything; and when s1
\* returns to the driver it has gone through the whole list, returns one
\* boolean, and every tile from its cursor on that reprojects without error
\* has an output file.
C28_FailureDoesNotAbortS1 ==
    /\ [][ (AtFailingTile /\ pc' # "menu") =>
             /\ pc' = "s1_loop" /\ i' = i + 1
             /\ processed_count' = processed_count
             /\ UNCHANGED <<ckptFile, checkpoint_data, ok>> ]_vars
    /\ [](pc = "ret1" =>
             /\ i = Len(input) /\ ok \in {"true", "false"}
             /\ stage_result.s1 \in {"ok", "fail"}
             /\ \A n \in (start_idx + 1)..Len(input) :
                   TileSpec(input[n]).reproject = "ok" => projected[n] # "none")

\* s1 has returned after a tile whose reprojection raised and a later tile
\* that it reprojected.
C28_Witness ==
    /\ pc = "ret1" /\ processed_count = 1 /\ start_idx = 0 /\ ~resumed
    /\ Len(input) = 2
    /\ TileSpec(input[1]).reproject # "ok" /\ projected[1] \in {"none", "partial"}
    /\ TileSpec(input[2]).reproject = "ok" /\ projected[2] = "full"

\* ------------------------------------------------------------------ C29
\* C29: when a run whose s1 returned success has ended with the checkpoint
\* deleted, every tile of the input list has a file in tiff_projected/.
C29_FinalizedHasEveryOutput ==
    (pc = "menu" /\ last_exit = "success" /\ stage_result.s1 = "ok"
     /\ ckptFile = NoFile) =>
        \A n \in 1..Len(input) : projected[n] # "none"

\* ------------------------------------------------------------------ C30
\* C30: when s2 has returned success with step2_complete set, every region
\* that a batch it processed has a sample for inside the vertical range has
\* a file in mca_output/.
C30_SuccessHasEveryRegion ==
    (pc = "ret" /\ stage_result.s2 = "ok" /\ ok = "true"
     /\ Get(checkpoint_data, "step2_complete", FALSE)) =>
        \A b \in start_batch..(total_batches - 1) :
            \A r \in RegionsOfBatch(b) :
                DocOfBatch(b, r).blocks # {} =>
                    \E f \in mca : f.name = mca_filename(r)

====
